---- MODULE Spec2Model ----
(***************************************************************************)
(* Model of image_similarity_streamlit_app.py: a Streamlit script that     *)
(* searches a corpus of vectorised images, either from a record picked in  *)
(* the cached image list (tab 1) or from an uploaded image that is staged  *)
(* and embedded first (tab 2).                                             *)
(*                                                                         *)
(* One browser session is modelled: Streamlit executes the script top to   *)
(* bottom, one statement at a time, once per interaction.  The table, the  *)
(* search service, the stage and the embedder are external: their calls    *)
(* return or raise, chosen nondeterministically, and the table can be      *)
(* edited by other parties at any moment.                                  *)
(***************************************************************************)
EXTENDS Integers, Sequences, FiniteSets

\* ------------------------------------------------------------------ bounds
MaxRecords == 2          \* record ids in IMAGES_TABLE_DOWNLOADED_VECT

\* ---------------------------------------------------- program constants
SliderMin == 1           \* st.slider("Number of results", 1, ...)
SelectSliderMax == 10    \* tab 1: st.slider(..., 1, 10, 5)
UploadSliderMax == 20    \* tab 2: st.slider(..., 1, 20, 10)

RecordIds == 1..MaxRecords
Vectors == {1, 2}                 \* abstract embedding vectors
Contents == {"imgA", "imgB"}     \* byte contents a user may upload
TmpNames == {1, 2}                \* names NamedTemporaryFile may pick

VARIABLES
  corpus,            \* table/index: record id -> vector, for the ids present
  available_images,  \* value cached by @st.cache_data get_available_images
  cacheLoaded,       \* get_available_images has run once
  stage,             \* files under @IMAGES/temp/
  localFiles,        \* temporary files on the local disk
  embedded,          \* contents AI_EMBED has been called for, in any run
  pc,                \* position of the script run
  selected,          \* tab 1: SOURCE_ID of selected_image (0: none)
  uploaded_file,     \* tab 2: content of the uploaded file ("": none)
  top_k,             \* slider value of the run (0: no run)
  tmp_file,          \* tab 2: name bound to tmp_file (0: unbound)
  query_vector,      \* vector handed to query_cortex_search (0: none)
  results,           \* list returned by query_cortex_search
  ui,                \* messages shown to the user in this run
  searchFailed,      \* the service lookup, call or conversion raised in this run
  nEmbed,            \* AI_EMBED calls issued in this run
  nSearch,           \* my_service.search calls issued in this run
  staged,            \* session.file.put succeeded in this run
  embedOutcome,      \* "none" | "vector" | "norow" | "raised"
  reEmbed,           \* AI_EMBED was called for a content it had been called for
  limit,             \* limit= of the last my_service.search call of this run (0: none)
  steps              \* statements of this run executed so far

vars == <<corpus, available_images, cacheLoaded, stage, localFiles, embedded,
          pc, selected, uploaded_file, top_k, tmp_file, query_vector, results,
          ui, searchFailed, nEmbed, nSearch, staged, embedOutcome, reEmbed,
          limit, steps>>

persistent == <<corpus, available_images, cacheLoaded, stage, localFiles, embedded>>
runLocals == <<selected, uploaded_file, top_k, tmp_file, query_vector, results,
               ui, searchFailed, nEmbed, nSearch, staged, embedOutcome, reEmbed,
               limit, steps>>

\* --------------------------------------------------------- search service
Dist(a, b) == IF a >= b THEN a - b ELSE b - a

Closer(corp, qv, i, j) ==
  \/ Dist(corp[i], qv) < Dist(corp[j], qv)
  \/ Dist(corp[i], qv) = Dist(corp[j], qv) /\ i < j

\* rank of record i among the records of corp, nearest to qv first
Position(corp, qv, i) ==
  1 + Cardinality({j \in DOMAIN corp : j # i /\ Closer(corp, qv, j, i)})

\* my_service.search(multi_index_query=..., columns=..., limit=k): the k nearest
ServiceSearch(corp, qv, k) ==
  LET n == Cardinality(DOMAIN corp)
      m == IF k < n THEN k ELSE n
  IN  [p \in 1..m |->
         [source_id |-> CHOOSE i \in DOMAIN corp : Position(corp, qv, i) = p]]

SvcOutcomes == {"ok", "lookup_raises", "search_raises", "convert_raises"}

\* lines 57-64: one result_dict per service result
ConvertResults(resp) == [i \in 1..Len(resp) |-> [SOURCE_ID |-> resp[i].source_id]]

\* a variant that reads resp.results[0] before the loop: no result is an error
QueryCortexSearchEmptyIsError(svc, corp, qv, k) ==
  IF svc = "ok" /\ ServiceSearch(corp, qv, k) # <<>>
  THEN [results |-> ConvertResults(ServiceSearch(corp, qv, k)), shown |-> {},
        raised |-> FALSE, calls |-> 1, limit |-> k]
  ELSE [results |-> <<>>, shown |-> {"Search error"},
        raised |-> FALSE, calls |-> IF svc = "lookup_raises" THEN 0 ELSE 1,
        limit |-> IF svc = "lookup_raises" THEN 0 ELSE k]

\* query_cortex_search: what it returns, what it shows, whether it raises
\* (calls, limit: the my_service.search calls it issued and the limit= it sent)
QueryCortexSearch(svc, corp, qv, k) ==
  LET called == IF svc = "lookup_raises" THEN 0 ELSE 1
      sent   == IF svc = "lookup_raises" THEN 0 ELSE k
  IN  IF svc = "ok"
      THEN [results |-> ConvertResults(ServiceSearch(corp, qv, k)), shown |-> {},
            raised |-> FALSE, calls |-> called, limit |-> sent]
      ELSE [results |-> <<>>, shown |-> {"Search error"},
            raised |-> FALSE, calls |-> called, limit |-> sent]

\* display_image_grid followed by st.success
ReportResults(res) ==
  IF res = <<>> THEN {"No results to display", "Found"} ELSE {"Found"}

\* ------------------------------------------------------------------- Init
Corpora == UNION {[S -> Vectors] : S \in SUBSET RecordIds}

Init ==
  /\ corpus \in Corpora
  /\ available_images = <<>>
  /\ cacheLoaded = FALSE
  /\ stage = {}
  /\ localFiles = {}
  /\ embedded = {}
  /\ pc = "idle"
  /\ selected = 0
  /\ uploaded_file = ""
  /\ top_k = 0
  /\ tmp_file = 0
  /\ query_vector = 0
  /\ results = <<>>
  /\ ui = {}
  /\ searchFailed = FALSE
  /\ nEmbed = 0
  /\ nSearch = 0
  /\ staged = FALSE
  /\ embedOutcome = "none"
  /\ reEmbed = FALSE
  /\ limit = 0
  /\ steps = 0

ResetRun ==
  /\ selected' = 0
  /\ uploaded_file' = ""
  /\ top_k' = 0
  /\ tmp_file' = 0
  /\ query_vector' = 0
  /\ results' = <<>>
  /\ ui' = {}
  /\ searchFailed' = FALSE
  /\ nEmbed' = 0
  /\ nSearch' = 0
  /\ staged' = FALSE
  /\ embedOutcome' = "none"
  /\ reEmbed' = FALSE
  /\ limit' = 0
  /\ steps' = 0

\* ------------------------------------------------- other parties (table)
UpsertRecord(id, v) ==
  /\ IF id \in DOMAIN corpus THEN corpus[id] # v ELSE TRUE
  /\ corpus' = [x \in DOMAIN corpus \cup {id} |-> IF x = id THEN v ELSE corpus[x]]
  /\ UNCHANGED <<available_images, cacheLoaded, stage, localFiles, embedded, pc>>
  /\ UNCHANGED runLocals

DeleteRecord(id) ==
  /\ id \in DOMAIN corpus
  /\ corpus' = [x \in DOMAIN corpus \ {id} |-> corpus[x]]
  /\ UNCHANGED <<available_images, cacheLoaded, stage, localFiles, embedded, pc>>
  /\ UNCHANGED runLocals

\* ------------------------------------------------------------ first run
\* get_available_images, first call: the rows, or [] when the query raises;
\* @st.cache_data keeps either value for every later run
GetAvailableImages(sqlOk) ==
  /\ pc = "idle"
  /\ ~cacheLoaded
  /\ available_images' = IF sqlOk THEN corpus ELSE <<>>
  /\ cacheLoaded' = TRUE
  /\ UNCHANGED <<corpus, stage, localFiles, embedded, pc>>
  /\ UNCHANGED runLocals

\* ------------------------------------------------- tab 1: select from stage
\* a slider that starts at 0
SelectSliderFromZero == 0..SelectSliderMax

\* line 167: st.slider("Number of results", 1, 10, 5)
SelectSlider == SliderMin..SelectSliderMax

\* lines 196-197: the button is clicked with an option of the cached list chosen
SelectClick(sel, k) ==
  /\ pc = "idle"
  /\ cacheLoaded
  /\ sel \in DOMAIN available_images
  /\ k \in SelectSlider
  /\ pc' = "s_search"
  /\ selected' = sel
  /\ top_k' = k
  /\ UNCHANGED <<corpus, available_images, cacheLoaded, stage, localFiles,
                 embedded, uploaded_file, tmp_file, query_vector, results, ui,
                 searchFailed, nEmbed, nSearch, staged, embedOutcome, reEmbed,
                 limit, steps>>

\* a variant that reads the vector again from the table when the record is there
SelectedVectorFromTable(sel) ==
  IF sel \in DOMAIN corpus THEN corpus[sel] ELSE available_images[sel]

\* line 204: query_vector=selected_image['IMAGE_VECTOR']
SelectedVector(sel) == available_images[sel]

\* lines 202-206
SelectSearch(svc) ==
  /\ pc = "s_search"
  /\ LET qv == SelectedVector(selected)
         r  == QueryCortexSearch(svc, corpus, qv, top_k)
     IN  /\ query_vector' = qv
         /\ results' = r.results
         /\ ui' = ui \cup r.shown
         /\ searchFailed' = (svc # "ok")
         /\ nSearch' = nSearch + r.calls
         /\ limit' = r.limit
         /\ pc' = IF r.raised THEN "s_except" ELSE "s_display"
  /\ steps' = steps + 1
  /\ UNCHANGED <<corpus, available_images, cacheLoaded, stage, localFiles,
                 embedded, selected, uploaded_file, top_k, tmp_file, nEmbed,
                 staged, embedOutcome, reEmbed>>

\* lines 208-217; a display call that raises leaves for the except clause
SelectDisplay(ok) ==
  /\ pc = "s_display"
  /\ ui' = IF ok THEN ui \cup ReportResults(results) ELSE ui
  /\ pc' = IF ok THEN "done" ELSE "s_except"
  /\ steps' = steps + 1
  /\ UNCHANGED <<corpus, available_images, cacheLoaded, stage, localFiles,
                 embedded, selected, uploaded_file, top_k, tmp_file,
                 query_vector, results, searchFailed, nEmbed, nSearch, staged,
                 embedOutcome, reEmbed, limit>>

\* lines 219-220
SelectExcept ==
  /\ pc = "s_except"
  /\ ui' = ui \cup {"Search failed"}
  /\ pc' = "done"
  /\ steps' = steps + 1
  /\ UNCHANGED <<corpus, available_images, cacheLoaded, stage, localFiles,
                 embedded, selected, uploaded_file, top_k, tmp_file,
                 query_vector, results, searchFailed, nEmbed, nSearch, staged,
                 embedOutcome, reEmbed, limit>>

\* ------------------------------------------------------ tab 2: upload image
\* line 240: st.slider("Number of results", 1, 20, 10, key="upload_top_k")
UploadSlider == SliderMin..UploadSliderMax

\* line 264: a file is uploaded and the button is clicked
UploadClick(b, k) ==
  /\ pc = "idle"
  /\ cacheLoaded
  /\ b \in Contents
  /\ k \in UploadSlider
  /\ pc' = "u_tmpfile"
  /\ uploaded_file' = b
  /\ top_k' = k
  /\ UNCHANGED <<corpus, available_images, cacheLoaded, stage, localFiles,
                 embedded, selected, tmp_file, query_vector, results, ui,
                 searchFailed, nEmbed, nSearch, staged, embedOutcome, reEmbed,
                 limit, steps>>

\* line 268: NamedTemporaryFile(delete=False) creates a file of an unused name
UploadTmpFile(name, ok) ==
  /\ pc = "u_tmpfile"
  /\ IF ok
     THEN /\ name \in TmpNames \ localFiles
          /\ localFiles' = localFiles \cup {name}
          /\ tmp_file' = name
          /\ pc' = "u_save"
     ELSE /\ UNCHANGED <<localFiles, tmp_file>>
          /\ pc' = "u_except"
  /\ steps' = steps + 1
  /\ UNCHANGED <<corpus, available_images, cacheLoaded, stage, embedded,
                 selected, uploaded_file, top_k, query_vector, results, ui,
                 searchFailed, nEmbed, nSearch, staged, embedOutcome, reEmbed,
                 limit>>

\* lines 270-273: Image.open, convert, save
UploadSave(ok) ==
  /\ pc = "u_save"
  /\ pc' = IF ok THEN "u_put" ELSE "u_except"
  /\ steps' = steps + 1
  /\ UNCHANGED <<corpus, available_images, cacheLoaded, stage, localFiles,
                 embedded, selected, uploaded_file, top_k, tmp_file,
                 query_vector, results, ui, searchFailed, nEmbed, nSearch,
                 staged, embedOutcome, reEmbed, limit>>

\* a variant that clears temp/ before the upload
StagePutReplacing(files, name) == {name}

\* session.file.put(tmp_file.name, "@IMAGES/temp/", overwrite=True)
StagePut(files, name) == files \cup {name}

\* lines 276-281
UploadPut(ok) ==
  /\ pc = "u_put"
  /\ IF ok
     THEN /\ stage' = StagePut(stage, tmp_file)
          /\ staged' = TRUE
          /\ pc' = "u_embed"
     ELSE /\ UNCHANGED <<stage, staged>>
          /\ pc' = "u_except"
  /\ steps' = steps + 1
  /\ UNCHANGED <<corpus, available_images, cacheLoaded, localFiles, embedded,
                 selected, uploaded_file, top_k, tmp_file, query_vector,
                 results, ui, searchFailed, nEmbed, nSearch, embedOutcome,
                 reEmbed, limit>>

EmbedOutcomes == {"vector", "norow", "raised"}

\* a variant without the test of line 291
AfterEmbedIgnoringRows(out) ==
  CASE out = "vector" -> "u_search"
    [] out = "norow"  -> "u_search"
    [] OTHER          -> "u_except"

\* a variant that calls the embedder again when it raised
AfterEmbedRetrying(out) ==
  CASE out = "vector" -> "u_search"
    [] out = "norow"  -> "u_unlink"
    [] OTHER          -> "u_embed"

\* a variant that skips the call for a content embedded before
NextEmbedCountCached(n, b, done) == IF b \in done THEN n ELSE n + 1

\* line 289: session.sql(vector_query).collect() is called on every run
NextEmbedCount(n, b, done) == n + 1

\* line 291 (if vector_result:) and the except clause of line 316
AfterEmbed(out) ==
  CASE out = "vector" -> "u_search"
    [] out = "norow"  -> "u_unlink"
    [] OTHER          -> "u_except"

\* lines 286-292: SELECT AI_EMBED(...) on the staged file
UploadEmbed(out, v) ==
  /\ pc = "u_embed"
  /\ out \in EmbedOutcomes
  /\ v \in Vectors
  /\ nEmbed' = NextEmbedCount(nEmbed, uploaded_file, embedded)
  /\ embedded' = embedded \cup {uploaded_file}
  /\ reEmbed' = (uploaded_file \in embedded)
  /\ embedOutcome' = out
  /\ query_vector' = IF out = "vector" THEN v ELSE query_vector
  /\ pc' = AfterEmbed(out)
  /\ steps' = steps + 1
  /\ UNCHANGED <<corpus, available_images, cacheLoaded, stage, localFiles,
                 selected, uploaded_file, top_k, tmp_file, results, ui,
                 searchFailed, nSearch, staged, limit>>

\* lines 295-299
UploadSearch(svc) ==
  /\ pc = "u_search"
  /\ LET r == QueryCortexSearch(svc, corpus, query_vector, top_k)
     IN  /\ results' = r.results
         /\ ui' = ui \cup r.shown
         /\ searchFailed' = (svc # "ok")
         /\ nSearch' = nSearch + r.calls
         /\ limit' = r.limit
         /\ pc' = IF r.raised THEN "u_except" ELSE "u_display"
  /\ steps' = steps + 1
  /\ UNCHANGED <<corpus, available_images, cacheLoaded, stage, localFiles,
                 embedded, selected, uploaded_file, top_k, tmp_file,
                 query_vector, nEmbed, staged, embedOutcome, reEmbed>>

\* lines 301-309
UploadDisplay(ok) ==
  /\ pc = "u_display"
  /\ ui' = IF ok THEN ui \cup ReportResults(results) ELSE ui
  /\ pc' = IF ok THEN "u_unlink" ELSE "u_except"
  /\ steps' = steps + 1
  /\ UNCHANGED <<corpus, available_images, cacheLoaded, stage, localFiles,
                 embedded, selected, uploaded_file, top_k, tmp_file,
                 query_vector, results, searchFailed, nEmbed, nSearch, staged,
                 embedOutcome, reEmbed, limit>>

\* os.unlink(name)
Unlink(files, name) == files \ {name}

\* line 314
UploadUnlink ==
  /\ pc = "u_unlink"
  /\ localFiles' = Unlink(localFiles, tmp_file)
  /\ pc' = "done"
  /\ steps' = steps + 1
  /\ UNCHANGED <<corpus, available_images, cacheLoaded, stage, embedded,
                 selected, uploaded_file, top_k, tmp_file, query_vector,
                 results, ui, searchFailed, nEmbed, nSearch, staged,
                 embedOutcome, reEmbed, limit>>

\* a variant whose except clause forgets the file
CleanupSkipped(files, name) == files

\* lines 319-323: if 'tmp_file' in locals() and os.path.exists(tmp_file.name)
CleanupOnError(files, name) ==
  IF name # 0 /\ name \in files THEN Unlink(files, name) ELSE files

\* lines 316-323
UploadExcept ==
  /\ pc = "u_except"
  /\ ui' = ui \cup {"Upload search failed"}
  /\ localFiles' = CleanupOnError(localFiles, tmp_file)
  /\ pc' = "done"
  /\ steps' = steps + 1
  /\ UNCHANGED <<corpus, available_images, cacheLoaded, stage, embedded,
                 selected, uploaded_file, top_k, tmp_file, query_vector,
                 results, searchFailed, nEmbed, nSearch, staged, embedOutcome,
                 reEmbed, limit>>

\* the script run is over; the next interaction starts a new one
Finish ==
  /\ pc = "done"
  /\ pc' = "idle"
  /\ ResetRun
  /\ UNCHANGED persistent

\* ------------------------------------------------------------------- Next
EnvStep ==
  \/ \E id \in RecordIds, v \in Vectors : UpsertRecord(id, v)
  \/ \E id \in RecordIds : DeleteRecord(id)

Click ==
  \/ \E sel \in RecordIds, k \in SelectSlider : SelectClick(sel, k)
  \/ \E b \in Contents, k \in UploadSlider : UploadClick(b, k)

RunStep ==
  \/ \E svc \in SvcOutcomes : SelectSearch(svc)
  \/ \E ok \in BOOLEAN : SelectDisplay(ok)
  \/ SelectExcept
  \/ \E name \in TmpNames, ok \in BOOLEAN : UploadTmpFile(name, ok)
  \/ \E ok \in BOOLEAN : UploadSave(ok)
  \/ \E ok \in BOOLEAN : UploadPut(ok)
  \/ \E out \in EmbedOutcomes, v \in Vectors : UploadEmbed(out, v)
  \/ \E svc \in SvcOutcomes : UploadSearch(svc)
  \/ \E ok \in BOOLEAN : UploadDisplay(ok)
  \/ UploadUnlink
  \/ UploadExcept
  \/ Finish

AppStep ==
  \/ \E sqlOk \in BOOLEAN : GetAvailableImages(sqlOk)
  \/ Click
  \/ RunStep

Next == AppStep

\* the application over a table nobody else edits
Spec == Init /\ [][Next]_vars

\* tab 1 over a table other parties edit between the statements of the script
SelectStep ==
  \/ \E svc \in SvcOutcomes : SelectSearch(svc)
  \/ \E ok \in BOOLEAN : SelectDisplay(ok)
  \/ SelectExcept
  \/ Finish

SelectNext ==
  \/ EnvStep
  \/ \E sqlOk \in BOOLEAN : GetAvailableImages(sqlOk)
  \/ \E sel \in RecordIds, k \in SelectSlider : SelectClick(sel, k)
  \/ SelectStep

SelectSpec == Init /\ [][SelectNext]_vars

\* ================================================================ claims
AfterSearch == {"s_display", "u_display"}
UploadRun == uploaded_file # ""
SelectRun == selected # 0

\* C1: the list query_cortex_search returns is no longer than top_k, and is
\* shorter than top_k only if the corpus holds fewer than top_k images.
C1_LengthContract ==
  pc \in AfterSearch =>
    /\ Len(results) <= top_k
    /\ Len(results) < top_k => Cardinality(DOMAIN corpus) < top_k

\* C2 (as stated): for any content the embedder is invoked at most once across
\* all upload searches: no call is ever issued for a content already embedded.
C2_EmbedOncePerContent == ~reEmbed

\* C2 (amended): one upload search invokes the embedder at most once, and every
\* upload search that gets as far as the embed step invokes it, also for a
\* content an earlier search embedded.
C2_EmbedOncePerSearch ==
  /\ nEmbed <= 1
  /\ (UploadRun /\ staged /\ pc # "u_embed") => nEmbed = 1
  /\ nEmbed = 1 => uploaded_file \in embedded

C2_Witness == pc = "done" /\ reEmbed /\ nEmbed = 1 /\ embedOutcome = "vector"

\* C3: a failed search is surfaced to the caller: the run that follows a failed
\* search reports the failure and never reports success.
C3_FailureSurfaced ==
  (pc = "done" /\ searchFailed) =>
    /\ "Found" \notin ui
    /\ "Search failed" \in ui \/ "Upload search failed" \in ui

\* C4: top_k is at least 1 in every run, within 1..10 in tab 1 and 1..20 in
\* tab 2, and the limit sent to the search service is that top_k.
C4_TopKInRange ==
  /\ SelectRun => top_k >= 1 /\ top_k <= 10
  /\ UploadRun => top_k >= 1 /\ top_k <= 20
  /\ nSearch > 0 => limit = top_k /\ limit >= 1

C4_Witness == pc = "u_display" /\ nSearch = 1 /\ limit = 20

\* C5 (as stated): the search of tab 1 uses the vector the corpus stores for the
\* selected record at the time of the search, and fails with UnknownRecord,
\* without querying the service, when the record is absent.
C5_UsesStoredVector ==
  [][(pc = "s_search" /\ pc' # "s_search") =>
       IF selected \in DOMAIN corpus
       THEN query_vector' = corpus[selected]
       ELSE nSearch' = 0 /\ "UnknownRecord" \in ui']_vars

\* C5 (amended): the search of tab 1 uses the vector the cached image list holds
\* for the selected record, whatever the corpus stores for it by then.
C5_UsesCachedVector ==
  (SelectRun /\ pc # "s_search") =>
    /\ selected \in DOMAIN available_images
    /\ query_vector = available_images[selected]
    /\ "UnknownRecord" \notin ui

\* top_k = 10 exceeds the corpus, so results list the whole corpus of the time
\* of the search: the selected record was absent from it
C5_Witness ==
  /\ pc = "s_display"
  /\ ~searchFailed
  /\ top_k = 10
  /\ results # <<>>
  /\ \A i \in 1..Len(results) : results[i].SOURCE_ID # selected
  /\ query_vector = available_images[selected]

\* C6: a search of an empty index returns an empty list and shows no error.
C6_EmptyIndexNoError ==
  (pc \in AfterSearch /\ ~searchFailed /\ DOMAIN corpus = {}) =>
    /\ results = <<>>
    /\ "Search error" \notin ui

C6_Witness ==
  /\ pc = "u_display"
  /\ ~searchFailed
  /\ nSearch = 1
  /\ DOMAIN corpus = {}
  /\ results = <<>>
  /\ ui = {}

\* C7: in an upload search the file is staged, then embedded, then the service
\* is queried: no search without a vector from the embed step, no embed
\* without the staged file.
C7_UploadSequential ==
  UploadRun =>
    /\ (pc \in {"u_search", "u_display"} \/ nSearch > 0 \/ searchFailed) =>
         /\ embedOutcome = "vector"
         /\ query_vector \in Vectors
    /\ embedOutcome # "none" => staged /\ tmp_file \in stage
    /\ embedOutcome \in {"norow", "raised"} =>
         /\ nSearch = 0
         /\ ~searchFailed
         /\ results = <<>>
         /\ pc \notin {"u_search", "u_display"}

C7_Witness ==
  /\ pc = "done"
  /\ UploadRun
  /\ embedOutcome = "norow"
  /\ nSearch = 0
  /\ staged

\* C8: no retry: a run issues at most one embed call and one service call, can
\* always execute its next statement, and ends within seven statements.
C8_NoRetryTerminates ==
  /\ nEmbed <= 1
  /\ nSearch <= 1
  /\ steps <= 7
  /\ pc \notin {"idle", "done"} => ENABLED RunStep
  /\ (embedOutcome = "raised" \/ searchFailed) => pc \notin {"u_embed", "u_search", "s_search"}

C8_Witness ==
  /\ pc = "done"
  /\ steps = 7
  /\ nEmbed = 1
  /\ nSearch = 1
  /\ searchFailed

\* C9: when an upload search is over, the temporary file it created is gone.
C9_TempFileRemoved ==
  pc \in {"done", "idle"} => localFiles = {}

C9_Witness ==
  /\ pc = "done"
  /\ tmp_file # 0
  /\ "Upload search failed" \in ui
  /\ embedOutcome = "raised"
  /\ tmp_file \notin localFiles

\* C10: no step of a search changes the corpus; the stage only grows, by the one
\* file an upload search puts under temp/, at most once per search.
C10_FrameEffect ==
  [][/\ corpus' = corpus
     /\ stage \subseteq stage'
     /\ stage' # stage => pc = "u_put" /\ ~staged /\ stage' = stage \cup {tmp_file}
     /\ (staged' /\ ~staged) => pc = "u_put" /\ tmp_file \in stage']_vars

C10_Witness ==
  /\ pc = "done"
  /\ staged
  /\ stage = TmpNames
  /\ localFiles = {}

====
